---- MODULE Spec2Model ----
(***************************************************************************)
(* announcarr: an IRC announce bot.  One process loads the seen-items file, *)
(* performs the IRC handshake (IrcClient::connect) and then runs the select *)
(* loop of main: inbound messages, a 2 s poll timer that fetches the feed   *)
(* at most every 30 s and announces unseen items, and a 60 s connection     *)
(* check.  The model follows src/src/main.rs and src/src/irc_client.rs.     *)
(***************************************************************************)
EXTENDS Integers, Sequences, FiniteSets, TLC

\* ---------------------------------------------------------------- bounds
MaxFeed == 2
MaxNow == 32

\* ------------------------------------------------------ program constants
PollPeriod == 2
MinFetchInterval == 30
CheckPeriod == 60

\* ------------------------------------------------------------------ data
\* ApiItem.id and Attributes.bumped_at are strings.
Ids == {"101", "102"}
Marks == {"2024-05-01", "2024-05-02"}

\* SeenItem / the (id, bumped_at) part of an ApiItem.
SeenItem == [id : Ids, bumped_at : Marks]

NoItem == [id |-> "", bumped_at |-> ""]

\* What fetch_messages can return: any sequence of items, empty on failure.
Feeds == UNION {[1..n -> SeenItem] : n \in 0..MaxFeed}

\* Inbound events of the IRC stream as connect and main tell them apart;
\* "ERROR" is Some(Err(_)), "END" is None (the stream has ended).
Events == {"WELCOME", "PING", "ACCEPTED", "NOTICE", "ENDOFNAMES", "OTHER", "ERROR", "END"}

\* main only prints an inbound message: it tells a message, an error and the
\* end of the stream apart.
MainEvents == {"OTHER", "ERROR", "END"}

Range(s) == {s[i] : i \in DOMAIN s}

Min2(a, b) == IF a <= b THEN a ELSE b

\* The orders in which a HashSet can be iterated into a Vec.
Orderings(S) == {s \in [1..Cardinality(S) -> S] : \A i, j \in DOMAIN s : s[i] = s[j] => i = j}

VARIABLES
    pc,              \* position of the process
    oper,            \* config.irc.oper is Some(true)
    stream,          \* "open" | "closed": has stream.next() returned None
    seen_ids,        \* the in-memory HashSet<SeenItem>
    announced_file,  \* the durable file: [st, recs]
    snapshot,        \* save_seen_ids: the Vec cloned under the lock
    messages,        \* main: the items of the fetch still to be looked at
    cur,             \* the item should_announce passed to send_message
    now,             \* seconds since the loop's timers were created
    last_api_call,
    interval_next,   \* deadline of the next interval.tick()
    check_next,      \* deadline of the next connection_check.tick()
    got,             \* how far the inbound events have gone through
                     \* welcome, accepted notice, end of names, in this order
    announced,       \* items committed by mark_as_announced in this run
    lock,            \* the Mutex around seen_ids: "free" | "held"
    emitted,         \* the handshake commands connect has had accepted, in order
    fetches,         \* the tick times at which this run called fetch_messages
    message,         \* the inbound event the last step took from the stream
    out,             \* the command the last step handed to the transport
    ret              \* the values the last step's calls returned

vars == <<pc, oper, stream, seen_ids, announced_file, snapshot, messages, cur, now,
          last_api_call, interval_next, check_next, got, announced, lock, emitted, fetches,
          message, out, ret>>

NoOut == [cmd |-> "none", ok |-> TRUE, item |-> NoItem]
Out(c, ok) == [cmd |-> c, ok |-> ok, item |-> NoItem]
OutItem(c, ok, it) == [cmd |-> c, ok |-> ok, item |-> it]

NoRet == [load_seen_ids |-> "none", connect |-> "none", should_announce |-> "none",
          send_message |-> "none", save_seen_ids |-> "none", main |-> "none"]

AbsentFile == [st |-> "absent", recs |-> <<>>]
CorruptFile == [st |-> "corrupt", recs |-> <<>>]
JsonFile(v) == [st |-> "json", recs |-> v]

Init ==
    /\ pc = "start"
    /\ oper \in BOOLEAN
    /\ stream = "open"
    /\ seen_ids = {}
    /\ announced_file = AbsentFile
    /\ snapshot = <<>>
    /\ messages = <<>>
    /\ cur = NoItem
    /\ now = 0
    /\ last_api_call = 0
    /\ interval_next = 0
    /\ check_next = 0
    /\ got = 0
    /\ announced = {}
    /\ lock = "free"
    /\ emitted = <<>>
    /\ fetches = {}
    /\ message = "none"
    /\ out = NoOut
    /\ ret = NoRet

\* ------------------------------------------------------- Seen-Item Store

\* load_seen_ids on a file in state f: the Result and the file afterwards.
\* A missing file is opened with write+truncate but without create, so the
\* open fails with NotFound and nothing is created.
LoadSeenIds(f) ==
    CASE f.st = "absent"  -> [res |-> "Err", set |-> {}, file |-> f]
      [] f.st = "corrupt" -> [res |-> "Err", set |-> {}, file |-> f]
      [] OTHER            -> [res |-> "Ok", set |-> Range(f.recs), file |-> f]

\* IrcClient::new, lines 42-48: a failed load is logged and replaced by an
\* empty set.
NewSeenIds(f) ==
    IF LoadSeenIds(f).res = "Ok" THEN LoadSeenIds(f).set ELSE {}

\* Mutant: the record is looked up by id alone.
MutContainsById(seen, it) == \E s \in seen : s.id = it.id

\* Mutant: the exact-match test is skipped.
MutContainsNever(seen, it) == FALSE

\* seen.contains(&seen_item)
ContainsExact(seen, it) == it \in seen

\* Mutant: the stale record of the id is kept.
MutRetainNothing(seen, it) == seen

\* seen.retain(|s| s.id != seen_item.id)
Retain(seen, it) == {s \in seen : s.id # it.id}

\* Mutant: every item is announced.
MutAlwaysAnnounce(seen, it) == TRUE

\* should_announce: the value returned and the set left behind.
ShouldAnnounceValue(seen, it) == ~ContainsExact(seen, it)

\* Mutant: the retain runs before the lookup returns.
MutRetainAlways(seen, it) == Retain(seen, it)

ShouldAnnounceSet(seen, it) ==
    IF ContainsExact(seen, it) THEN seen ELSE Retain(seen, it)

\* Mutant: the insert is lost.
MutInsertNothing(seen, it) == seen

\* mark_as_announced: seen.insert(seen_item)
Insert(seen, it) == seen \cup {it}

\* save_seen_ids, lines 167-174: the file after the write of vec v.
\* "open_failed": the open fails, the file is untouched; "write_failed": the
\* file was truncated and the write or flush failed, leaving no valid JSON.
WriteOutcomes == {"ok", "open_failed", "write_failed"}

\* Mutant: the last record of the Vec is not written.
MutWriteDropsLast(f, v, outcome) ==
    CASE outcome = "ok"          -> JsonFile(SubSeq(v, 1, Len(v) - 1))
      [] outcome = "open_failed" -> f
      [] OTHER                   -> CorruptFile

WriteFile(f, v, outcome) ==
    CASE outcome = "ok"          -> JsonFile(v)
      [] outcome = "open_failed" -> f
      [] OTHER                   -> CorruptFile

SaveResult(outcome) == IF outcome = "ok" THEN "Ok" ELSE "Err"

\* ------------------------------------------------------------- startup

\* IrcClient::new: load the seen items, then build the client; a client
\* that cannot be built ends main with the error.
New(clientOk) ==
    /\ pc = "start"
    /\ seen_ids' = NewSeenIds(announced_file)
    /\ announced_file' = LoadSeenIds(announced_file).file
    /\ pc' = IF clientOk THEN "connect" ELSE "exited"
    /\ ret' = [NoRet EXCEPT !.load_seen_ids = LoadSeenIds(announced_file).res,
                            !.main = IF clientOk THEN "none" ELSE "Err"]
    /\ message' = "none"
    /\ out' = NoOut
    /\ UNCHANGED <<oper, stream, snapshot, messages, cur, now, last_api_call,
                   interval_next, check_next, got, announced, lock, emitted, fetches>>

\* ----------------------------------------------------------- handshake

\* What stream.next() can yield: None for ever once it has yielded None.
NextEvents == IF stream = "closed" THEN {"END"} ELSE Events

StreamAfter(ev) == IF ev = "END" THEN "closed" ELSE stream

\* Progress of the inbound events through welcome, accepted notice and
\* end of names, taken in this order.
GotAfter(g, ev) ==
    IF \/ g = 0 /\ ev = "WELCOME"
       \/ g = 1 /\ ev = "ACCEPTED"
       \/ g = 2 /\ ev = "ENDOFNAMES"
    THEN g + 1 ELSE g

\* The commands of the handshake proper; a command counts as emitted when
\* the transport has accepted it.
HandshakeCmds == {"NICK", "IDENTIFY", "JOIN", "OPER"}

Emit(log, o) == IF o.cmd \in HandshakeCmds /\ o.ok THEN Append(log, o.cmd) ELSE log

ConnectFailed == [NoRet EXCEPT !.connect = "Err", !.main = "Err"]

\* connect, line 63: self.client.identify()?
Identify(ok) ==
    /\ pc = "connect"
    /\ pc' = IF ok THEN "registering" ELSE "exited"
    /\ out' = Out("NICK", ok)
    /\ ret' = IF ok THEN NoRet ELSE ConnectFailed
    /\ emitted' = Emit(emitted, out')
    /\ message' = "none"
    /\ UNCHANGED <<oper, stream, seen_ids, announced_file, snapshot, messages, cur, now,
                   last_api_call, interval_next, check_next, got, announced, lock, fetches>>

\* The first loop of connect, lines 67-80, on one inbound event.
RegisteringOn(ev) ==
    CASE ev = "ERROR"   -> "error"
      [] ev = "END"     -> "leave"
      [] ev = "WELCOME" -> "leave"
      [] ev = "PING"    -> "pong"
      [] OTHER          -> "stay"

\* Lines 67-83: one event of the first loop; leaving the loop submits the
\* NickServ IDENTIFY.
Registering(ev, ok) ==
    /\ pc = "registering"
    /\ ev \in NextEvents
    /\ LET d == RegisteringOn(ev) IN
        /\ pc' = CASE d = "error" -> "exited"
                   [] d = "leave" -> IF ok THEN "authenticating" ELSE "exited"
                   [] d = "pong"  -> IF ok THEN "registering" ELSE "exited"
                   [] OTHER       -> "registering"
        /\ out' = CASE d = "leave" -> Out("IDENTIFY", ok)
                    [] d = "pong"  -> Out("PONG", ok)
                    [] OTHER       -> NoOut
        /\ ret' = IF d = "error" \/ (d \in {"leave", "pong"} /\ ~ok)
                  THEN ConnectFailed ELSE NoRet
    /\ message' = ev
    /\ stream' = StreamAfter(ev)
    /\ got' = GotAfter(got, ev)
    /\ emitted' = Emit(emitted, out')
    /\ UNCHANGED <<oper, seen_ids, announced_file, snapshot, messages, cur, now,
                   last_api_call, interval_next, check_next, announced, lock, fetches>>

\* The second loop of connect, lines 86-95.
AuthenticatingOn(ev) ==
    CASE ev = "ERROR"    -> "error"
      [] ev = "END"      -> "leave"
      [] ev = "ACCEPTED" -> "leave"
      [] OTHER           -> "stay"

\* Lines 86-98: one event of the second loop; leaving the loop submits the
\* JOIN.
Authenticating(ev, ok) ==
    /\ pc = "authenticating"
    /\ ev \in NextEvents
    /\ LET d == AuthenticatingOn(ev) IN
        /\ pc' = CASE d = "error" -> "exited"
                   [] d = "leave" -> IF ok THEN "joining" ELSE "exited"
                   [] OTHER       -> "authenticating"
        /\ out' = IF d = "leave" THEN Out("JOIN", ok) ELSE NoOut
        /\ ret' = IF d = "error" \/ (d = "leave" /\ ~ok) THEN ConnectFailed ELSE NoRet
    /\ message' = ev
    /\ stream' = StreamAfter(ev)
    /\ got' = GotAfter(got, ev)
    /\ emitted' = Emit(emitted, out')
    /\ UNCHANGED <<oper, seen_ids, announced_file, snapshot, messages, cur, now,
                   last_api_call, interval_next, check_next, announced, lock, fetches>>

\* The third loop of connect, lines 100-117.
JoiningOn(ev) ==
    CASE ev = "ERROR"      -> "error"
      [] ev = "END"        -> "return"
      [] ev = "ENDOFNAMES" -> "joined"
      [] OTHER             -> "stay"

\* Mutant: the OPER request is submitted whatever the configuration says.
MutOperAlways == TRUE

\* Line 108: if let Some(true) = &self.config.oper
OperConfigured == oper

\* Lines 100-117: one event of the third loop; the end of names submits
\* the OPER when configured and returns Ok, the end of the stream returns
\* Ok at line 117.
Joining(ev, ok) ==
    /\ pc = "joining"
    /\ ev \in NextEvents
    /\ LET d == JoiningOn(ev) IN
        /\ pc' = CASE d = "error"  -> "exited"
                   [] d = "return" -> "ready"
                   [] d = "joined" -> IF OperConfigured /\ ~ok THEN "exited" ELSE "ready"
                   [] OTHER        -> "joining"
        /\ out' = IF d = "joined" /\ OperConfigured THEN Out("OPER", ok) ELSE NoOut
        /\ ret' = CASE d = "error"  -> ConnectFailed
                    [] d = "return" -> [NoRet EXCEPT !.connect = "Ok"]
                    [] d = "joined" -> IF OperConfigured /\ ~ok THEN ConnectFailed
                                       ELSE [NoRet EXCEPT !.connect = "Ok"]
                    [] OTHER        -> NoRet
    /\ message' = ev
    /\ stream' = StreamAfter(ev)
    /\ got' = GotAfter(got, ev)
    /\ emitted' = Emit(emitted, out')
    /\ UNCHANGED <<oper, seen_ids, announced_file, snapshot, messages, cur, now,
                   last_api_call, interval_next, check_next, announced, lock, fetches>>

\* main, lines 31-44: the first verify_connected (its result is dropped)
\* and the creation of the timers; a tokio interval's first tick is due at
\* once.
MainStart(ok) ==
    /\ pc = "ready"
    /\ pc' = "select"
    /\ out' = Out("PONG", ok)
    /\ now' = 0
    /\ last_api_call' = 0 - MinFetchInterval
    /\ interval_next' = 0
    /\ check_next' = 0
    /\ message' = "none"
    /\ ret' = NoRet
    /\ emitted' = <<>>
    /\ UNCHANGED <<oper, stream, seen_ids, announced_file, snapshot, messages, cur,
                   got, announced, lock, fetches>>

\* ------------------------------------------------------------ main loop

\* Line 48-50: an inbound message is printed; an Err ends main through `?`;
\* None disables the branch.
Inbound(ev) ==
    /\ pc = "select"
    /\ stream = "open"
    /\ ev \in MainEvents
    /\ pc' = IF ev = "ERROR" THEN "exited" ELSE "select"
    /\ ret' = IF ev = "ERROR" THEN [NoRet EXCEPT !.main = "Err"] ELSE NoRet
    /\ stream' = StreamAfter(ev)
    /\ message' = ev
    /\ out' = NoOut
    /\ UNCHANGED <<oper, seen_ids, announced_file, snapshot, messages, cur, now,
                   last_api_call, interval_next, check_next, got, announced, lock,
                   emitted, fetches>>

\* select! sleeps until the first timer is due.
Wait ==
    /\ pc = "select"
    /\ now < interval_next
    /\ now < check_next
    /\ Min2(interval_next, check_next) <= MaxNow
    /\ now' = Min2(interval_next, check_next)
    /\ message' = "none"
    /\ out' = NoOut
    /\ ret' = NoRet
    /\ UNCHANGED <<pc, oper, stream, seen_ids, announced_file, snapshot, messages, cur,
                   last_api_call, interval_next, check_next, got, announced, lock,
                   emitted, fetches>>

\* Mutant: a fetch needs more than the minimum interval.
MutRateLimitStrict(n, last) == n - last > MinFetchInterval

\* Mutant: select! is biased towards the inbound branch, and the poll branch
\* is polled only when the stream has nothing to give.
MutBiasedToInbound == pc = "select" /\ now >= interval_next /\ stream # "open"

\* Lines 47 and 52: select! polls its branches in random order; the poll
\* branch is ready when a tick of the interval is due.
PollBranchReady == pc = "select" /\ now >= interval_next

\* Line 56: now.duration_since(last_api_call) >= Duration::from_secs(30)
RateLimitAllows(n, last) == n - last >= MinFetchInterval

\* Lines 52-57 and 67-69: a tick of the poll timer; when the rate limit
\* allows, fetch_messages returns the items of this cycle.
PollTick(feed) ==
    /\ PollBranchReady
    /\ feed \in Feeds
    /\ interval_next' = interval_next + PollPeriod
    /\ IF RateLimitAllows(now, last_api_call)
       THEN pc' = "for" /\ messages' = feed /\ fetches' = fetches \cup {now}
       ELSE pc' = "select" /\ messages' = messages /\ fetches' = fetches
    /\ message' = "none"
    /\ out' = NoOut
    /\ ret' = NoRet
    /\ UNCHANGED <<oper, stream, seen_ids, announced_file, snapshot, cur, now,
                   last_api_call, check_next, got, announced, lock, emitted>>

\* Lines 59-60: should_announce on the next item of the fetch; it takes the
\* lock at line 185 and its guard is dropped when it returns.
ForNext ==
    /\ pc = "for"
    /\ messages # <<>>
    /\ lock = "free"
    /\ LET it == Head(messages) IN
        /\ seen_ids' = ShouldAnnounceSet(seen_ids, it)
        /\ IF ShouldAnnounceValue(seen_ids, it)
           THEN pc' = "send" /\ cur' = it
           ELSE pc' = "for" /\ cur' = NoItem
        /\ ret' = [NoRet EXCEPT !.should_announce =
                       IF ShouldAnnounceValue(seen_ids, it) THEN "true" ELSE "false"]
    /\ messages' = Tail(messages)
    /\ message' = "none"
    /\ out' = NoOut
    /\ UNCHANGED <<oper, stream, announced_file, snapshot, now, last_api_call,
                   interval_next, check_next, got, announced, lock, emitted, fetches>>

\* Mutant: the timestamp of the last fetch is never moved.
MutStampKept(n, last) == last

\* Line 65: last_api_call = now, the Instant taken when the tick was served.
StampAfterFetch(n, last) == n

\* Line 65: the fetch's items are done, last_api_call = now.
ForEnd ==
    /\ pc = "for"
    /\ messages = <<>>
    /\ pc' = "select"
    /\ last_api_call' = StampAfterFetch(now, last_api_call)
    /\ message' = "none"
    /\ out' = NoOut
    /\ ret' = NoRet
    /\ UNCHANGED <<oper, stream, seen_ids, announced_file, snapshot, messages, cur, now,
                   interval_next, check_next, got, announced, lock, emitted, fetches>>

\* send_message, lines 203-208: format and send_privmsg; a rejected send
\* returns the error, which main drops.
SendPrivmsg(ok) ==
    /\ pc = "send"
    /\ out' = OutItem("PRIVMSG", ok, cur)
    /\ IF ok
       THEN pc' = "verify" /\ cur' = cur /\ ret' = NoRet
       ELSE pc' = "for" /\ cur' = NoItem /\ ret' = [NoRet EXCEPT !.send_message = "Err"]
    /\ message' = "none"
    /\ UNCHANGED <<oper, stream, seen_ids, announced_file, snapshot, messages, now,
                   last_api_call, interval_next, check_next, got, announced, lock,
                   emitted, fetches>>

\* send_message, lines 211-217: verify_connected decides whether the item
\* is marked.
\* Mutant: the result of verify_connected is ignored.
MutIgnoreProbe(ok) == "mark"

AfterProbe(ok) == IF ok THEN "mark" ELSE "for"

VerifySent(ok) ==
    /\ pc = "verify"
    /\ out' = Out("PONG", ok)
    /\ pc' = AfterProbe(ok)
    /\ IF AfterProbe(ok) = "mark"
       THEN cur' = cur /\ ret' = NoRet
       ELSE cur' = NoItem /\ ret' = [NoRet EXCEPT !.send_message = "Err"]
    /\ message' = "none"
    /\ UNCHANGED <<oper, stream, seen_ids, announced_file, snapshot, messages, now,
                   last_api_call, interval_next, check_next, got, announced, lock,
                   emitted, fetches>>

\* mark_as_announced, lines 223-231: the lock is taken and the item
\* inserted.
Mark ==
    /\ pc = "mark"
    /\ lock = "free"
    /\ lock' = "held"
    /\ seen_ids' = Insert(seen_ids, cur)
    /\ announced' = announced \cup {cur}
    /\ pc' = "marked"
    /\ message' = "none"
    /\ out' = NoOut
    /\ ret' = NoRet
    /\ UNCHANGED <<oper, stream, announced_file, snapshot, messages, cur, now,
                   last_api_call, interval_next, check_next, got, emitted, fetches>>

\* Line 232: the block of the insert ends and its guard is dropped.
MarkBlockEnd == "free"

\* mark_as_announced, lines 232-234: the block ends, save_seen_ids is called.
MarkRelease ==
    /\ pc = "marked"
    /\ lock' = MarkBlockEnd
    /\ pc' = "save"
    /\ message' = "none"
    /\ out' = NoOut
    /\ ret' = NoRet
    /\ UNCHANGED <<oper, stream, seen_ids, announced_file, snapshot, messages, cur, now,
                   last_api_call, interval_next, check_next, got, announced, emitted,
                   fetches>>

\* save_seen_ids, lines 161-163: the lock is taken and the set cloned into
\* a Vec.
SnapshotOf(seen) == Orderings(seen)

Snapshot(v) ==
    /\ pc = "save"
    /\ lock = "free"
    /\ lock' = "held"
    /\ v \in SnapshotOf(seen_ids)
    /\ snapshot' = v
    /\ pc' = "cloned"
    /\ message' = "none"
    /\ out' = NoOut
    /\ ret' = NoRet
    /\ UNCHANGED <<oper, stream, seen_ids, announced_file, messages, cur, now,
                   last_api_call, interval_next, check_next, got, announced, emitted,
                   fetches>>

\* Mutant: the guard is not scoped in a block and lives to the end of
\* save_seen_ids.
MutGuardOutlivesBlock == "held"

\* Line 164: the block of the clone ends and its guard is dropped.
CloneBlockEnd == "free"

\* save_seen_ids, lines 164-166: the block ends before the file is opened.
SnapshotRelease ==
    /\ pc = "cloned"
    /\ lock' = CloneBlockEnd
    /\ pc' = "write"
    /\ message' = "none"
    /\ out' = NoOut
    /\ ret' = NoRet
    /\ UNCHANGED <<oper, stream, seen_ids, announced_file, snapshot, messages, cur, now,
                   last_api_call, interval_next, check_next, got, announced, emitted,
                   fetches>>

\* save_seen_ids, lines 167-176, and the return of mark_as_announced and
\* send_message: a failed save is logged, send_message returns Ok.
Write(outcome) ==
    /\ pc = "write"
    /\ outcome \in WriteOutcomes
    /\ announced_file' = WriteFile(announced_file, snapshot, outcome)
    /\ ret' = [NoRet EXCEPT !.save_seen_ids = SaveResult(outcome), !.send_message = "Ok"]
    /\ snapshot' = <<>>
    /\ cur' = NoItem
    /\ pc' = "for"
    /\ message' = "none"
    /\ out' = NoOut
    /\ UNCHANGED <<oper, stream, seen_ids, messages, now, last_api_call, interval_next,
                   check_next, got, announced, lock, emitted, fetches>>

\* Lines 73-75: the connection check; its result is dropped.
CheckTick(ok) ==
    /\ pc = "select"
    /\ now >= check_next
    /\ check_next' = check_next + CheckPeriod
    /\ out' = Out("PONG", ok)
    /\ message' = "none"
    /\ ret' = NoRet
    /\ UNCHANGED <<pc, oper, stream, seen_ids, announced_file, snapshot, messages, cur,
                   now, last_api_call, interval_next, got, announced, lock, emitted,
                   fetches>>

\* The process has ended, or is ended from outside while it waits in
\* select, and is started again: only the file and the configuration are kept.
Restart ==
    /\ pc \in {"exited", "select"}
    /\ pc' = "start"
    /\ stream' = "open"
    /\ seen_ids' = {}
    /\ snapshot' = <<>>
    /\ messages' = <<>>
    /\ cur' = NoItem
    /\ now' = 0
    /\ last_api_call' = 0
    /\ interval_next' = 0
    /\ check_next' = 0
    /\ got' = 0
    /\ announced' = {}
    /\ lock' = "free"
    /\ emitted' = <<>>
    /\ fetches' = {}
    /\ message' = "none"
    /\ out' = NoOut
    /\ ret' = NoRet
    /\ UNCHANGED <<oper, announced_file>>

Next ==
    \/ \E ok \in BOOLEAN : New(ok)
    \/ \E ok \in BOOLEAN : Identify(ok)
    \/ \E ev \in Events, ok \in BOOLEAN : Registering(ev, ok)
    \/ \E ev \in Events, ok \in BOOLEAN : Authenticating(ev, ok)
    \/ \E ev \in Events, ok \in BOOLEAN : Joining(ev, ok)
    \/ \E ok \in BOOLEAN : MainStart(ok)
    \/ \E ev \in MainEvents : Inbound(ev)
    \/ Wait
    \/ \E feed \in Feeds : PollTick(feed)
    \/ ForNext
    \/ ForEnd
    \/ \E ok \in BOOLEAN : SendPrivmsg(ok)
    \/ \E ok \in BOOLEAN : VerifySent(ok)
    \/ Mark
    \/ MarkRelease
    \/ \E v \in SnapshotOf(seen_ids) : Snapshot(v)
    \/ SnapshotRelease
    \/ \E outcome \in WriteOutcomes : Write(outcome)
    \/ \E ok \in BOOLEAN : CheckTick(ok)
    \/ Restart

Spec == Init /\ [][Next]_vars

\* connect handles one more event of the stream.
Handshake ==
    \E ev \in Events, ok \in BOOLEAN :
        Registering(ev, ok) \/ Authenticating(ev, ok) \/ Joining(ev, ok)

\* The scheduling of the code: while the connection gives events connect
\* goes on handling them, and select! starts its poll at a branch drawn at
\* random, so that a branch that stays ready is taken in the end.
FairSpec ==
    /\ Init
    /\ [][Next]_vars
    /\ WF_vars(Handshake)
    /\ WF_vars(\E feed \in Feeds : PollTick(feed))

\* ==================================================================
\* Properties
\* ==================================================================

\* This step hands the PRIVMSG for item `it` to the transport.
Sends(it) == pc = "send" /\ out' = OutItem("PRIVMSG", TRUE, it)

\* C1 (as stated): once an item (id, freshness marker) has been announced
\* and committed in this run, no later step sends a message for the same
\* (id, freshness marker).
C1_NeverTwiceForSameMarker ==
    [][\A it \in SeenItem : Sends(it) => it \notin announced]_vars

\* C1 (amended): once an item (id, freshness marker) has been announced and
\* committed in this run, no step sends a message for the same pair for as
\* long as its record stays in the in-memory store.
C1_NoResendWhileRecorded ==
    [][\A it \in SeenItem : Sends(it) => ~(it \in announced /\ it \in seen_ids)]_vars

\* An item committed in this run, and still recorded, is the next item of a
\* fetch.
C1_Witness ==
    /\ pc = "for"
    /\ messages # <<>>
    /\ Head(messages) \in announced
    /\ Head(messages) \in seen_ids

\* C2: for an item whose (id, freshness) pair is in the store,
\* should_announce returns false and the loop goes on to the next item
\* without sending; a send_message in progress is never about a stored pair.
C2_CommittedNotAnnounced ==
    /\ [](pc \in {"send", "verify"} => cur \notin seen_ids)
    /\ [][(pc = "for" /\ messages # <<>> /\ Head(messages) \in seen_ids)
            => (/\ ret'.should_announce = "false"
                /\ pc' = "for"
                /\ out'.cmd = "none"
                /\ seen_ids' = seen_ids)]_vars

\* should_announce has just returned false on a stored pair.
C2_Witness ==
    /\ pc = "for"
    /\ ret.should_announce = "false"
    /\ seen_ids # {}

\* C3: the in-memory set holds at most one record per id.
C3_OneRecordPerId ==
    \A s, t \in seen_ids : s.id = t.id => s = t

\* An id committed in this run with one marker is now recorded with
\* another one.
C3_Witness ==
    \E a \in announced, s \in seen_ids : a.id = s.id /\ a # s

\* C4: after the commit of an item, the store holds exactly one record for
\* its id, the one with the item's marker.
C4_Superseded ==
    pc \in {"save", "write"} => {s \in seen_ids : s.id = cur.id} = {cur}

\* The item just committed has the id of an item committed before with a
\* different marker.
C4_Witness ==
    /\ pc = "save"
    /\ \E a \in announced : a.id = cur.id /\ a # cur

\* C5: a failed probe after the send makes send_message return Err and
\* leaves the set and the file as they were, the item absent; a record is
\* added to the set only by mark_as_announced after a successful send and
\* a successful probe, and the file changes only in the write that follows.
C5_ProbeFailureNotCommitted ==
    /\ [](pc = "verify" => out = OutItem("PRIVMSG", TRUE, cur))
    /\ [](pc = "mark" => out = Out("PONG", TRUE))
    /\ [][/\ (pc = "verify" /\ out' = Out("PONG", FALSE))
               => (/\ ret'.send_message = "Err"
                   /\ pc' = "for"
                   /\ seen_ids' = seen_ids
                   /\ cur \notin seen_ids'
                   /\ announced_file' = announced_file)
          /\ (pc # "start" /\ seen_ids' \ seen_ids # {})
               => (pc = "mark" /\ seen_ids' \ seen_ids = {cur})
          /\ (announced_file' # announced_file) => pc = "write"]_vars

\* send_message has just returned Err because the probe failed.
C5_Witness ==
    /\ pc = "for"
    /\ out = Out("PONG", FALSE)
    /\ ret.send_message = "Err"

\* C6: right after a save that returned Ok, loading the file succeeds and
\* yields the in-memory set.
C6_FileReflectsMemory ==
    ret.save_seen_ids = "Ok"
        => (/\ LoadSeenIds(announced_file).res = "Ok"
            /\ LoadSeenIds(announced_file).set = seen_ids)

\* A save of two records has just returned Ok.
C6_Witness ==
    /\ ret.save_seen_ids = "Ok"
    /\ Cardinality(seen_ids) = 2

\* C7 (as stated): load at startup with no file creates an empty file and
\* returns Ok with an empty set.
C7_AbsentFileCreated ==
    [][(pc = "start" /\ announced_file.st = "absent")
         => (/\ ret'.load_seen_ids = "Ok"
             /\ announced_file' = JsonFile(<<>>)
             /\ seen_ids' = {})]_vars

\* C8 (as stated): connect returns Ok only after the welcome, the accepted
\* notice and the end of names have been received, in this order.
C8_ReadyOnlyAfterAllThree ==
    pc = "ready" => got = 3

\* C9 (as stated): connect does not return Ok when the inbound stream has
\* ended during the handshake.
C9_DisconnectFailsHandshake ==
    pc = "ready" => stream = "open"

WaitingStates == {"registering", "authenticating", "joining"}

\* C10 (as stated): in every waiting state of the handshake a PING is
\* answered with a PONG in the step that receives it, and answering it
\* leaves the handshake state as it is.
C10_PingAnswered ==
    [][(pc \in WaitingStates /\ message' = "PING")
         => (out'.cmd = "PONG" /\ (out'.ok => pc' = pc))]_vars

\* C11 (as stated): when the end of names is received and the OPER request
\* is submitted, connect returns Ok whether the transport accepts the
\* request or rejects it.
C11_OperFailureDoesNotBlockReady ==
    [][(pc = "joining" /\ out'.cmd = "OPER")
         => (pc' = "ready" /\ ret'.connect = "Ok")]_vars

\* The positions of the process inside the event loop of main.
LoopStates == {"select", "for", "send", "verify", "mark", "marked", "save", "cloned", "write"}

\* C13 (as stated): no step taken inside the event loop ends the process.
C13_LoopFailuresContained ==
    [][(pc \in LoopStates) => (pc' # "exited")]_vars

\* The latest of the fetch times of this run.
Latest(S) == CHOOSE a \in S : \A b \in S : b <= a

\* A step that serves a tick of the poll timer.
PollTickStep == pc = "select" /\ pc' # "start" /\ interval_next' # interval_next

\* C12: a tick of the poll timer fetches exactly when no fetch has been made
\* in this run or the latest one is at least the minimum fetch interval
\* back; any two fetches of a run are at least that interval apart.
C12_RateLimit ==
    /\ [](\A a, b \in fetches : a < b => b - a >= MinFetchInterval)
    /\ [][PollTickStep =>
            /\ (pc' = "for") <=>
                   (fetches = {} \/ now - Latest(fetches) >= MinFetchInterval)
            /\ fetches' = IF pc' = "for" THEN fetches \cup {now} ELSE fetches
            /\ pc' = "for" => now \notin fetches]_vars

\* Ticks less than the interval after the first fetch were skipped and the
\* tick one interval after it fetches again.
C12_Witness ==
    /\ pc = "for"
    /\ Cardinality(fetches) = 2
    /\ interval_next > MinFetchInterval

\* C14 (as stated): a connect that waits for a server event ends, in Ready
\* or in failure.
C14_HandshakeTerminates ==
    (pc \in WaitingStates) ~> (pc \in {"ready", "exited"})

\* C15: a tick of the poll timer that is due is served, whatever inbound
\* messages keep coming, unless the process ends first; one pass of the loop
\* serves at most one of the inbound stream, the poll timer and the
\* liveness timer.
C15_PollNotStarved ==
    /\ (pc = "select" /\ now >= interval_next)
          ~> (pc # "select" \/ now < interval_next)
    /\ [][(pc = "select" /\ pc' # "start") =>
            /\ ~(message' # "none" /\ interval_next' # interval_next)
            /\ ~(message' # "none" /\ check_next' # check_next)
            /\ ~(interval_next' # interval_next /\ check_next' # check_next)]_vars

\* A tick of the poll timer is due while an inbound message has just been
\* served and the stream can give more.
C15_Witness ==
    /\ pc = "select"
    /\ now >= interval_next
    /\ message = "OTHER"
    /\ stream = "open"
    /\ now > 0

\* C16 (as stated): an item that should_announce has passed, and whose send
\* failed before any commit was made, is not passed a second time.
C16_TrueExactlyOnce ==
    [][(/\ pc = "for"
        /\ messages # <<>>
        /\ announced = {}
        /\ seen_ids = {}
        /\ out = OutItem("PRIVMSG", FALSE, Head(messages)))
            => ret'.should_announce # "true"]_vars

\* C16 (amended): should_announce returns true on every call for an item
\* that was not committed in this run and has no record in the store, the
\* call after a failed send of the same item included, and send_message is
\* entered for it each time.
C16_TrueUntilCommitted ==
    [][(pc = "for" /\ messages # <<>>) =>
          LET it == Head(messages) IN
            /\ (it \notin announced /\ it \notin seen_ids)
                  => (ret'.should_announce = "true" /\ pc' = "send" /\ cur' = it)
            /\ (out = OutItem("PRIVMSG", FALSE, it) /\ it \notin seen_ids)
                  => ret'.should_announce = "true"]_vars

\* The send of an item failed with nothing committed, and the same item is
\* the next of the fetch.
C16_Witness ==
    /\ pc = "for"
    /\ messages # <<>>
    /\ announced = {}
    /\ seen_ids = {}
    /\ out = OutItem("PRIVMSG", FALSE, Head(messages))

\* C17: should_announce returns true exactly when the item's pair is not in
\* the set; on true it removes every record of the item's id, on false it
\* leaves the set as it is; it never adds a record and never writes the file.
C17_CheckIsNotACommit ==
    [][(pc = "for" /\ messages # <<>>) =>
          LET it == Head(messages) IN
            /\ ret'.should_announce \in {"true", "false"}
            /\ (ret'.should_announce = "true") <=> (it \notin seen_ids)
            /\ ret'.should_announce = "true"
                  => seen_ids' = {s \in seen_ids : s.id # it.id}
            /\ ret'.should_announce = "false" => seen_ids' = seen_ids
            /\ seen_ids' \subseteq seen_ids
            /\ announced_file' = announced_file]_vars

\* should_announce has returned true on an item and dropped the record its
\* id had under another marker.
C17_Witness ==
    /\ pc = "send"
    /\ ret.should_announce = "true"
    /\ cur \notin seen_ids
    /\ \E a \in announced : a.id = cur.id /\ a # cur /\ a \notin seen_ids

\* C18: the lock is free whenever the file write of a commit is in progress;
\* it is held only between the insert and the end of its block, and between
\* the clone and the end of its block.
C18_LockFreeDuringWrite ==
    /\ pc = "write" => lock = "free"
    /\ lock = "held" => pc \in {"marked", "cloned"}
    /\ pc \in {"marked", "cloned"} => lock = "held"

\* The file write of a commit is in progress.
C18_Witness ==
    /\ pc = "write"
    /\ snapshot # <<>>
    /\ cur \in seen_ids

HandshakeOrder == <<"NICK", "IDENTIFY", "JOIN", "OPER">>

\* C20: the commands connect has emitted are an initial part of NICK,
\* IDENTIFY, JOIN, OPER, each at most once, and OPER is among them only when
\* the configuration asks for it.
C20_HandshakeOrder ==
    /\ Len(emitted) <= Len(HandshakeOrder)
    /\ emitted = SubSeq(HandshakeOrder, 1, Len(emitted))
    /\ (Len(emitted) = Len(HandshakeOrder)) => oper
    /\ (pc = "ready" /\ ~oper) => emitted = SubSeq(HandshakeOrder, 1, 3)

\* connect has returned Ok with all four commands emitted.
C20_Witness ==
    /\ pc = "ready"
    /\ emitted = HandshakeOrder

====
